---------------------------- MODULE Spec2Model ----------------------------
(***************************************************************************)
(* The course notebooks as state machines.                                 *)
(*                                                                         *)
(* A notebook is a list of statements grouped in code cells.  The kernel   *)
(* runs them in order: a statement binds constraint collections to names   *)
(* (Define), hands collections to the solver's model (AddConstraint),      *)
(* sets the objective (SetObjective) or calls the solver (Solve).  The     *)
(* solver is outside the repository: it is modelled by the relation it     *)
(* computes between points of the variables' domain and the model built    *)
(* so far, i.e. Solve looks at one point of the domain and records whether *)
(* it satisfies every constraint of the model (status) and whether no      *)
(* feasible point has a better objective (optimal).  The points a real     *)
(* call can return are those recorded feasible and optimal.                *)
(*                                                                         *)
(* Continuous quantities are kept on integer grids; each grid is named     *)
(* where it is introduced.                                                 *)
(***************************************************************************)
EXTENDS Integers, Sequences, FiniteSets, TLC

VARIABLES
    nb,         \* the notebook the kernel is running
    data,       \* the values bound by the notebook's data cell
    pc,         \* number of statements executed or aborted so far
    defined,    \* names of the constraint collections bound so far
    added,      \* names of the collections handed to the model
    objective,  \* [sense, expr] as given to the solver, or NoObjective
    sol,        \* "none", or the point of the domain the solver looked at
    status,     \* "building" | "feasible" | "infeasible"
    optimal,    \* the point is feasible and no feasible point is better
    bound,      \* {}, or {the best objective value of a feasible point}
    errors,     \* names whose use raised NameError
    calls       \* number of calls of the solver

vars == <<nb, data, pc, defined, added, objective, sol, status, optimal,
          bound, errors, calls>>

----------------------------------------------------------------------------
(* Arithmetic helpers: xp.Sum / mdl.sum / sum over an index set.           *)

RECURSIVE SumOver(_, _)
SumOver(S, f) ==
    IF S = {} THEN 0
    ELSE LET e == CHOOSE e \in S : TRUE
         IN  f[e] + SumOver(S \ {e}, f)

\* The same sum over the integers a, ..., b-1.
RECURSIVE SumRange(_, _, _)
SumRange(a, b, f) == IF a >= b THEN 0 ELSE f[a] + SumRange(a + 1, b, f)

Min(a, b) == IF a <= b THEN a ELSE b

\* range(a, b) of Python: a, a+1, ..., b-1
Range(a, b) == a .. (b - 1)

----------------------------------------------------------------------------
(* N-queens problem.ipynb                                                  *)

\* Largest board size explored, and how many queens more than n a point
\* of the domain may hold.
MaxBoard == 4
MaxExtraQueens == 1

QueensData == { [n |-> k] : k \in 1 .. MaxBoard }

\* positions = [Position(i,j) for i in nRange for j in nRange]
positions(d) == Range(0, d.n) \X Range(0, d.n)

\* get_pos(positions, i, j): the position with that row and column; pop()
\* on the empty list raises IndexError when there is none.
get_pos(d, i, j) == IF <<i, j>> \in positions(d) THEN <<i, j>> ELSE "IndexError"

one_queen_per_column(d, x) ==
    \A j \in Range(0, d.n) :
        SumRange(0, d.n, [i \in Range(0, d.n) |-> x[<<i, j>>]]) <= 1

one_queen_per_row(d, x) ==
    \A i \in Range(0, d.n) :
        SumRange(0, d.n, [j \in Range(0, d.n) |-> x[<<i, j>>]]) <= 1

one_queen_per_first_diagonal_rows(d, x) ==
    \A i \in Range(0, d.n) :
        SumRange(0, d.n - i, [k \in Range(0, d.n - i) |-> x[get_pos(d, k + i, k)]]) <= 1

one_queen_per_first_diagonal_columns(d, x) ==
    \A i \in Range(0, d.n) :
        SumRange(0, d.n - i, [k \in Range(0, d.n - i) |-> x[get_pos(d, k, k + i)]]) <= 1

one_queen_per_second_diagonal_columns(d, x) ==
    \A i \in Range(0, d.n) :
        SumRange(0, i + 1, [k \in Range(0, i + 1) |-> x[get_pos(d, k, i - k)]]) <= 1

Mut_second_diagonal_rows(d, x) ==
    \A i \in Range(0, d.n) :
        SumRange(0, i + 1, [k \in Range(0, i + 1) |->
                               x[get_pos(d, d.n - k - 1, d.n - k - 1)]]) <= 1

one_queen_per_second_diagonal_rows(d, x) ==
    \A i \in Range(0, d.n) :
        SumRange(0, i + 1, [k \in Range(0, i + 1) |->
                               x[get_pos(d, d.n - k - 1, d.n + k - i - 1)]]) <= 1

n_queens_on_board(d, x) ==
    SumRange(0, d.n, [i \in Range(0, d.n) |->
                        SumRange(0, d.n, [j \in Range(0, d.n) |-> x[<<i, j>>]])]) = d.n

\* The statements of the notebook's code cells, up to model.solve().
QueensProgram == <<
    [cell |-> 2, op |-> "define", names |-> {"one_queen_per_column"}],
    [cell |-> 3, op |-> "define", names |-> {"one_queen_per_row"}],
    [cell |-> 4, op |-> "define", names |-> {"one_queen_per_first_diagonal_rows",
                                             "one_queen_per_first_diagonal_columns",
                                             "one_queen_per_second_diagonal_columns",
                                             "one_queen_per_second_diagonal_rows"}],
    [cell |-> 5, op |-> "define", names |-> {"n_queens_on_board"}],
    [cell |-> 6, op |-> "add",    names |-> {"one_queen_per_column", "one_queen_per_row",
                                             "one_queen_per_first_diagonal_rows",
                                             "one_queen_per_first_diagonal_columns",
                                             "one_queen_per_second_diagonal_columns",
                                             "one_queen_per_second_diagonal_rows",
                                             "n_queens_on_board"}],
    [cell |-> 6, op |-> "solve",  names |-> {}] >>

\* x = {pos : xp.var(vartype = xp.binary) for pos in positions}.  The solver
\* enters its search at the point with every variable 0 ...
QueensDomain(d) == { [x |-> [pos \in positions(d) |-> 0]] }

\* ... and branches by fixing to 1 a variable that follows, in the order of
\* the list positions, every variable already at 1; a point holds at most
\* n + MaxExtraQueens ones.  Every such 0/1 assignment is reached once.
QueensIndex(d, pos) == pos[1] * d.n + pos[2]

QueensBranches(d, s) ==
    LET ones == {pos \in positions(d) : s.x[pos] = 1}
    IN  IF Cardinality(ones) >= d.n + MaxExtraQueens THEN {}
        ELSE { [x |-> [s.x EXCEPT ![pos] = 1]] :
                 pos \in {p \in positions(d) :
                            \A q \in ones : QueensIndex(d, q) < QueensIndex(d, p)} }

QueensHolds(c, d, s) ==
    CASE c = "one_queen_per_column" -> one_queen_per_column(d, s.x)
      [] c = "one_queen_per_row" -> one_queen_per_row(d, s.x)
      [] c = "one_queen_per_first_diagonal_rows" -> one_queen_per_first_diagonal_rows(d, s.x)
      [] c = "one_queen_per_first_diagonal_columns" -> one_queen_per_first_diagonal_columns(d, s.x)
      [] c = "one_queen_per_second_diagonal_columns" -> one_queen_per_second_diagonal_columns(d, s.x)
      [] c = "one_queen_per_second_diagonal_rows" -> one_queen_per_second_diagonal_rows(d, s.x)
      [] c = "n_queens_on_board" -> n_queens_on_board(d, s.x)

----------------------------------------------------------------------------
(* Doctors scheduling.solution.ipynb                                       *)

\* Number of days from start_time to end_time, both included (61 in the
\* notebook); the roster starts on a Monday.
DoctorDays == 2

\* How many times the search raises a y above its lower bound.
MaxRaises == 2

day_limit == 12

\* DoctorData.xlsx is not part of the repository: three doctors (rows of
\* the sheet) and one hospital, of which doctor "c" may be pregnant.
DoctorsData ==
    { [doctors |-> {"a", "b", "c"},
       rows |-> <<"a", "b", "c">>,
       hospitals |-> {"H1"},
       is_pregnant |-> [n \in {"a", "b", "c"} |-> n \in P],
       allocation |-> [n \in {"a", "b", "c"} |-> IF n = "a" THEN 100 ELSE 50],
       work_locations |-> [n \in {"a", "b", "c"} |-> {"H1"}],
       days |-> DoctorDays] : P \in {{}, {"c"}} }

shift_days(d) == Range(0, d.days)

\* current.weekday() of day k, start_time being a Monday
weekday(k) == k % 7

weekday_times == << <<6, 14>>, <<14, 22>>, <<22, 30>> >>
weekend_times == << <<6, 18>>, <<18, 30>> >>

day_times(k) == IF weekday(k) < 5 THEN weekday_times ELSE weekend_times

\* A shift is <<day, i>>: the i-th interval of its day.
shifts(d) == { <<k, i>> : k \in shift_days(d), i \in 1 .. 3 } \cap
             { sh \in Nat \X Nat : sh[2] \in DOMAIN day_times(sh[1]) }

shift_start(sh) == day_times(sh[1])[sh[2]][1]
shift_end(sh) == day_times(sh[1])[sh[2]][2]

\* Shift.duration_in_hours
duration_in_hours(sh) == shift_end(sh) - shift_start(sh)

\* Shift.is_nightshift: start_time.time() >= time(18,0) or <= time(2,0)
is_nightshift(sh) == shift_start(sh) % 24 >= 18 \/ shift_start(sh) % 24 <= 2

\* Shift.can_work_pregnant
can_work_pregnant(sh) == duration_in_hours(sh) < 12 /\ ~is_nightshift(sh)

\* shift.start_time.date(), as the index of the day
start_date(sh) == sh[1] + (shift_start(sh) \div 24)

\* Placement(doctor, shift, hospital) and Nightshift(doctor, day)
placements(d) == d.doctors \X shifts(d) \X d.hospitals
nightshifts(d) == d.doctors \X shift_days(d)

\* total_work_time = (end_time - start_time).days * (40/7), times 7
total_work_time7(d) == (d.days - 1) * 40

force_shift_fulfillment(d, s) ==
    \A sh \in shifts(d), h \in d.hospitals :
        SumOver({p \in placements(d) : p[2] = sh /\ p[3] = h}, s.x) = 1

one_shift_limit(d, s) ==
    \A doc \in d.doctors, t \in shift_days(d) :
        SumOver({p \in placements(d) : p[1] = doc /\ start_date(p[2]) = t}, s.x) <= 1

max_time_working(d, s) ==
    \A doc \in d.doctors, t \in shift_days(d) :
        SumRange(0, day_limit + 1,
                 [j \in Range(0, day_limit + 1) |->
                    SumOver({p \in placements(d) :
                               p[1] = doc /\ start_date(p[2]) = t + j}, s.x)])
            <= day_limit

hospital_limit(d, s) ==
    \A doc \in d.doctors :
        SumOver({p \in placements(d) :
                   p[1] = doc /\ p[3] \notin d.work_locations[doc]}, s.x) = 0

pregnancy_limit(d, s) ==
    \A doc \in {n \in d.doctors : d.is_pregnant[n]} :
        SumOver({p \in placements(d) :
                   p[1] = doc /\ ~can_work_pregnant(p[2])}, s.x) = 0

\* Sum of x over every placement of the doctor that starts on days
\* day + a, ..., day + b - 1.
WorkOnDays(d, s, doc, day, a, b) ==
    SumRange(a, b,
             [k \in Range(a, b) |->
                SumOver({p \in placements(d) :
                           p[1] = doc /\ start_date(p[2]) = day + k}, s.x)])

force_nightshift_work(d, s) ==
    \A n \in nightshifts(d) :
        WorkOnDays(d, s, n[1], n[2], 0, 3) >= 3 * s.y[n]

force_rest(d, s) ==
    \A n \in nightshifts(d) :
        WorkOnDays(d, s, n[1], n[2], 3, 6) <= 3 * (1 - s.y[n])

\* Hours worked by a doctor, times 700.
WorkTime700(d, s, doc) ==
    700 * SumOver({p \in placements(d) : p[1] = doc},
                  [p \in placements(d) |-> duration_in_hours(p[2]) * s.x[p]])

\* d.allocation * total_work_time, times 700 (the allocation is in percent).
TargetTime700(d, doc) == d.allocation[doc] * total_work_time7(d)

aux_definition1(d, s) ==
    \A doc \in d.doctors : WorkTime700(d, s, doc) - TargetTime700(d, doc) <= s.t[doc]

aux_definition2(d, s) ==
    \A doc \in d.doctors : TargetTime700(d, doc) - WorkTime700(d, s, doc) <= s.t[doc]

\* xp.Sum(t[d] for d in doctors)
DoctorsObjective(d, s) == SumOver(d.doctors, s.t)

DoctorsProgram == <<
    [cell |-> 3, op |-> "define", names |-> {"force_shift_fulfillment"}],
    [cell |-> 4, op |-> "define", names |-> {"one_shift_limit"}],
    [cell |-> 5, op |-> "define", names |-> {"max_time_working"}],
    [cell |-> 6, op |-> "define", names |-> {"hospital_limit"}],
    [cell |-> 7, op |-> "define", names |-> {"pregnancy_limit"}],
    [cell |-> 8, op |-> "define", names |-> {"force_nightshift_work", "force_rest"}],
    [cell |-> 8, op |-> "add",    names |-> {"force_shift_fulfillment", "one_shift_limit",
                                             "max_time_working", "hospital_limit",
                                             "pregnancy_limit", "force_nightshift_work",
                                             "force_rest"}],
    [cell |-> 9, op |-> "define", names |-> {"aux_definition1", "aux_definition2"}],
    [cell |-> 9, op |-> "add",    names |-> {"aux_definition1", "aux_definition2"}],
    [cell |-> 9, op |-> "objective", names |-> {}, sense |-> "min", expr |-> "sum_t"],
    [cell |-> 10, op |-> "solve", names |-> {}] >>

\* The least value of the continuous t[d] >= 0 that satisfies both
\* auxiliary constraints (t has no upper bound, so one always exists).
LeastT(d, x) ==
    [doc \in d.doctors |->
        LET w == WorkTime700(d, [x |-> x], doc) - TargetTime700(d, doc)
        IN  IF w >= 0 THEN w ELSE 0 - w]

\* x binary, y integer in -1..1, t continuous >= 0.  The solver enters its
\* search at a roster that gives every shift of every hospital to one
\* doctor, with every y at its lower bound ...
DoctorsDomain(d) ==
    { LET x == [p \in placements(d) |-> IF r[<<p[2], p[3]>>] = p[1] THEN 1 ELSE 0]
      IN  [x |-> x, y |-> [n \in nightshifts(d) |-> -1], t |-> LeastT(d, x)]
      : r \in [shifts(d) \X d.hospitals -> d.doctors] }

\* ... and branches by raising one y by one; the y that follow it in the
\* order of the list nightshifts are still at their lower bound.
Raises(d, s) == SumOver(nightshifts(d), [n \in nightshifts(d) |-> s.y[n] + 1])

NightshiftIndex(d, n) ==
    LET row == CHOOSE i \in DOMAIN d.rows : d.rows[i] = n[1]
    IN  (row - 1) * d.days + n[2]

DoctorsBranches(d, s) ==
    { [s EXCEPT !.y[n] = s.y[n] + 1] :
        n \in {m \in nightshifts(d) :
                 /\ Raises(d, s) < MaxRaises
                 /\ s.y[m] < 1
                 /\ \A k \in nightshifts(d) :
                      NightshiftIndex(d, k) > NightshiftIndex(d, m) => s.y[k] = -1} }

DoctorsHolds(c, d, s) ==
    CASE c = "force_shift_fulfillment" -> force_shift_fulfillment(d, s)
      [] c = "one_shift_limit" -> one_shift_limit(d, s)
      [] c = "max_time_working" -> max_time_working(d, s)
      [] c = "hospital_limit" -> hospital_limit(d, s)
      [] c = "pregnancy_limit" -> pregnancy_limit(d, s)
      [] c = "force_nightshift_work" -> force_nightshift_work(d, s)
      [] c = "force_rest" -> force_rest(d, s)
      [] c = "aux_definition1" -> aux_definition1(d, s)
      [] c = "aux_definition2" -> aux_definition2(d, s)

----------------------------------------------------------------------------
(* Batch scheduling.part2.solution-checkpoint.ipynb                        *)

\* Quantities are multiples of 1/BatchGrid (thousand litres); the demand of
\* the notebook, 4.5 from day 20 on, is MaxDemand on this grid.
BatchGrid == 2
MaxDemand == 9

\* The rates at which a schedule of the family below starts batches, and
\* the shortest stays in fermentation and purification it tries.
BatchRates == 8 .. 11
ShortFermentation == 9
ShortPurification == 1

\* The data cell.  The demand is 0 for 20 days and constant afterwards;
\* the cell lists several such demands, the input here is that constant.
BatchData ==
    { [n |-> 105, t_m |-> 3, A_max |-> 8, Z_b |-> 5 * BatchGrid,
       t_min_fermentation |-> 10, t_max_fermentation |-> 30,
       t_min_purification |-> 2, t_max_purification |-> 5,
       C_m |-> 350, mu |-> 2, C_f |-> 410, phi |-> 5, C_p |-> 380, pi |-> 7,
       C_b |-> 250, beta |-> 2, C_w |-> 200, chi |-> 1,
       d |-> [i \in Range(0, 105) |-> IF i < 20 THEN 0 ELSE c]]
      : c \in 0 .. MaxDemand }

nRange(d) == Range(0, d.n)

\* xp.Sum(u[i] - v[i] for i in range(j+1))
Balance(u, v, j) == SumRange(0, j + 1, [i \in Range(0, j + 1) |-> u[i] - v[i]])

\* xp.Sum(u[j-n] for n in range(min(j+1, k)))
Recent(u, j, k) ==
    SumRange(0, Min(j + 1, k), [n \in Range(0, Min(j + 1, k)) |-> u[j - n]])

mixing_balance(d, s) == \A j \in nRange(d) : s.M[j] = Balance(s.m, s.f, j)
fermentation_balance(d, s) == \A j \in nRange(d) : s.F[j] = Balance(s.f, s.p, j)
purification_balance(d, s) == \A j \in nRange(d) : s.P[j] = Balance(s.p, s.b, j)
blending_balance(d, s) == \A j \in nRange(d) : s.B[j] = Balance(s.b, s.w, j)
warehousing_balance(d, s) == \A j \in nRange(d) : s.W[j] = Balance(s.w, d.d, j)

fixing_mixing_time(d, s) ==
    \A i \in nRange(d) : i >= d.t_m => s.f[i] = s.m[i - d.t_m]

fixing_mixing_time_time0(d, s) == \A i \in Range(0, d.t_m) : s.f[i] = 0

minimum_time_fermentation(d, s) ==
    \A j \in nRange(d) : s.F[j] >= Recent(s.f, j, d.t_min_fermentation)

maximum_time_fermentation(d, s) ==
    \A j \in nRange(d) : s.F[j] <= Recent(s.f, j, d.t_max_fermentation)

minimum_time_purification(d, s) ==
    \A j \in nRange(d) : s.P[j] >= Recent(s.p, j, d.t_min_purification)

maximum_time_purification(d, s) ==
    \A j \in nRange(d) : s.P[j] <= Recent(s.p, j, d.t_max_purification)

fix_blending_time(d, s) == \A i \in nRange(d) : i >= 1 => s.w[i] = s.b[i - 1]

limit_capacity(d, s) == \A i \in nRange(d) : s.B[i] <= d.Z_b

limit_capacity_throughout(d, s) == \A i \in nRange(d) : s.b[i] <= d.Z_b

warehouse_age_limit(d, s) ==
    \A j \in nRange(d) : s.W[j] <= Recent(s.w, j, d.A_max + 1)

\* get_variable_dictionary: continuous, lb = 0, one variable per day
BatchNames == {"m", "M", "f", "F", "p", "P", "b", "B", "w", "W"}

get_variable_dictionary(d, s) ==
    \A v \in BatchNames : \A day \in nRange(d) : s[v][day] >= 0

\* xp.Sum(C_m*mu*m[i] + C_f*phi*f[i] + C_p*pi*p[i] + C_b*beta*b[i]
\*        + C_w*chi*w[i] for i in nRange)
BatchObjective(d, s) ==
    SumRange(0, d.n,
             [i \in nRange(d) |->
                d.C_m * d.mu * s.m[i] + d.C_f * d.phi * s.f[i]
                + d.C_p * d.pi * s.p[i] + d.C_b * d.beta * s.b[i]
                + d.C_w * d.chi * s.w[i]])

BatchProgram == <<
    [cell |-> 3, op |-> "define", names |-> {"mixing_balance"}],
    [cell |-> 3, op |-> "define", names |-> {"fermentation_balance"}],
    [cell |-> 3, op |-> "define", names |-> {"purification_balance"}],
    [cell |-> 3, op |-> "define", names |-> {"blending_balance"}],
    [cell |-> 3, op |-> "define", names |-> {"warehousing_balance"}],
    [cell |-> 3, op |-> "add",    names |-> {"mixing_balance", "fermentation_balance",
                                             "purification_balance", "blending_balance",
                                             "warehousing_balance"}],
    [cell |-> 4, op |-> "define", names |-> {"fixing_mixing_time"}],
    [cell |-> 4, op |-> "define", names |-> {"fixing_mixing_time_time0"}],
    [cell |-> 5, op |-> "define", names |-> {"minimum_time_fermentation"}],
    [cell |-> 5, op |-> "define", names |-> {"maximum_time_fermentation"}],
    [cell |-> 6, op |-> "define", names |-> {"minimum_time_purification"}],
    [cell |-> 6, op |-> "define", names |-> {"maximum_time_purification"}],
    [cell |-> 7, op |-> "define", names |-> {"fix_blending_time"}],
    [cell |-> 7, op |-> "define", names |-> {"limit_capacity"}],
    [cell |-> 7, op |-> "define", names |-> {"limit_capacity_throughout"}],
    [cell |-> 8, op |-> "define", names |-> {"warehouse_age_limit"}],
    [cell |-> 8, op |-> "add",    names |-> {"fixing_mixing_time", "minimum_time_fermentation",
                                             "maximum_time_fermentation",
                                             "minimum_time_purification",
                                             "maximum_time_purification",
                                             "fix_blending_time", "limit_capacity",
                                             "fixing_mixing_time_time0",
                                             "limit_capacity_throughout"}],
    [cell |-> 9, op |-> "objective", names |-> {}, sense |-> "min", expr |-> "labor_cost"] >>

\* A production schedule: from day 0 on, r is mixed every day, stays t_m
\* days in mixing, tf days in fermentation, tp days in purification and one
\* day in blending; the volumes are what the flows leave in each stage.
BatchSchedule(d, r, tf, tp) ==
    LET m == [i \in nRange(d) |-> r]
        f == [i \in nRange(d) |-> IF i >= d.t_m THEN m[i - d.t_m] ELSE 0]
        p == [i \in nRange(d) |-> IF i >= tf THEN f[i - tf] ELSE 0]
        b == [i \in nRange(d) |-> IF i >= tp THEN p[i - tp] ELSE 0]
        w == [i \in nRange(d) |-> IF i >= 1 THEN b[i - 1] ELSE 0]
    IN  [m |-> m, f |-> f, p |-> p, b |-> b, w |-> w,
         M |-> [j \in nRange(d) |-> Balance(m, f, j)],
         F |-> [j \in nRange(d) |-> Balance(f, p, j)],
         P |-> [j \in nRange(d) |-> Balance(p, b, j)],
         B |-> [j \in nRange(d) |-> Balance(b, w, j)],
         W |-> [j \in nRange(d) |-> Balance(w, d.d, j)]]

\* The schedules of that family whose variables are within their bounds.
BatchDomain(d) ==
    { s \in { BatchSchedule(d, r, tf, tp) :
                r \in BatchRates,
                tf \in ShortFermentation .. d.t_min_fermentation,
                tp \in ShortPurification .. d.t_min_purification }
        : get_variable_dictionary(d, s) }

BatchHolds(c, d, s) ==
    CASE c = "mixing_balance" -> mixing_balance(d, s)
      [] c = "fermentation_balance" -> fermentation_balance(d, s)
      [] c = "purification_balance" -> purification_balance(d, s)
      [] c = "blending_balance" -> blending_balance(d, s)
      [] c = "warehousing_balance" -> warehousing_balance(d, s)
      [] c = "fixing_mixing_time" -> fixing_mixing_time(d, s)
      [] c = "fixing_mixing_time_time0" -> fixing_mixing_time_time0(d, s)
      [] c = "minimum_time_fermentation" -> minimum_time_fermentation(d, s)
      [] c = "maximum_time_fermentation" -> maximum_time_fermentation(d, s)
      [] c = "minimum_time_purification" -> minimum_time_purification(d, s)
      [] c = "maximum_time_purification" -> maximum_time_purification(d, s)
      [] c = "fix_blending_time" -> fix_blending_time(d, s)
      [] c = "limit_capacity" -> limit_capacity(d, s)
      [] c = "limit_capacity_throughout" -> limit_capacity_throughout(d, s)
      [] c = "warehouse_age_limit" -> warehouse_age_limit(d, s)

----------------------------------------------------------------------------
(* unnamed/part_002: Nurse scheduling, Nurse scheduling with data          *)

\* Days of the schedule (nDays, 7 in the notebook).
NurseDays == 5

\* The data cells of the first two models (they bind the same sizes).
\* A row of Nurses is (name, regular cost, limit, overtime cost).
NurseData ==
    { [nDays |-> NurseDays, nShifts |-> 4, nNurses |-> 4,
       Nurses |-> << <<"Anne", 4000, 4, 8000>>,
                     <<"Martin", 3800, 6, 7000>>,
                     <<"Julie", 5500, 5, 10000>>,
                     <<"David", 6000, 5, 7000>> >>] }

DRange(d) == Range(0, d.nDays)
SRange(d) == Range(0, d.nShifts)
NRange(d) == Range(0, d.nNurses)

\* 'Assign all nurses (day %s, nurse %s)'
assign_day_nurse(d, s) ==
    \A day \in DRange(d), n \in NRange(d) :
        SumRange(0, d.nShifts, [sh \in SRange(d) |-> s.x[day][sh][n]]) = 1

\* 'Assign all nurses (day %s, shift %s)'
assign_day_shift(d, s) ==
    \A day \in DRange(d), sh \in SRange(d) :
        SumRange(0, d.nNurses, [n \in NRange(d) |-> s.x[day][sh][n]]) = 1

\* mdl.sum(x[d,0,n] for d in DRange)
DaysOff(d, s, n) == SumRange(0, d.nDays, [day \in DRange(d) |-> s.x[day][0][n]])

\* 'LB for day-off for nurse %s'
day_off_lb(d, s) == \A n \in NRange(d) : DaysOff(d, s, n) >= 1

\* 'UB for day-off for nurse %s'
day_off_ub(d, s) == \A n \in NRange(d) : DaysOff(d, s, n) <= 2

\* 'Limit number of nurses for shift %s', for s in SRange if s > 0
limit_nurses(d, s) ==
    \A sh \in SRange(d) :
        sh > 0 =>
            SumRange(0, d.nNurses,
                     [n \in NRange(d) |->
                        IF SumRange(0, d.nDays,
                                    [day \in DRange(d) |-> s.x[day][sh][n]]) >= 1
                        THEN 1 ELSE 0]) <= 2

\* The if_then of the loop body for one shift, nurse and day.
Mut_if_then_at(d, x, sh, n, day) ==
    IF day = 0
    THEN x[day][sh][n] = 1 => x[day + 1][sh][n] = 1
    ELSE IF day < d.nDays - 1
    THEN x[day][sh][n] = 1 =>
            (x[day - 1][sh][n] = 1 \/ x[day + 1][sh][n] = 1)
    ELSE TRUE

if_then_at(d, x, sh, n, day) ==
    IF day = 0
    THEN x[day][sh][n] = 1 => x[day + 1][sh][n] = 1
    ELSE IF day < d.nDays - 1
    THEN x[day][sh][n] = 1 =>
            (x[day - 1][sh][n] = 1 \/ x[day + 1][sh][n] = 1)
    ELSE x[day][sh][n] = 1 => x[day - 1][sh][n] = 1

\* for s in SRange: if s <= 1: continue; for n in NRange: for d in DRange
if_then(d, s) ==
    \A sh \in SRange(d) :
        sh > 1 => \A n \in NRange(d), day \in DRange(d) : if_then_at(d, s.x, sh, n, day)

\* mdl.sum(x[d,s,n] for d in DRange for s in SRange if s > 0)
WorkingShifts(d, x, n) ==
    SumRange(0, d.nDays,
             [day \in DRange(d) |->
                SumRange(1, d.nShifts, [sh \in Range(1, d.nShifts) |-> x[day][sh][n]])])

\* 'OvertimeDefinition nurse %s'
overtime_definition(d, s) ==
    \A n \in NRange(d) :
        WorkingShifts(d, s.x, n) >= d.Nurses[n + 1][3] =>
            s.y[n] = WorkingShifts(d, s.x, n) - d.Nurses[n + 1][3]

\* The value the loop "for s in SRange" leaves bound to the global s.
LeakedS(d) == d.nShifts - 1

\* mdl.sum(x[d,s,n] for d in DRange for S in SRange if s > 0): the inner
\* loop variable is S, so s is the global s and every term is x[d,s,n].
MinimizeInnerSum(d, x, n) ==
    SumRange(0, d.nDays,
             [day \in DRange(d) |->
                SumRange(0, d.nShifts,
                         [S \in SRange(d) |->
                            IF LeakedS(d) > 0 THEN x[day][LeakedS(d)][n] ELSE 0])])

\* mdl.minimize(mdl.sum(Nurses[n][1]*mdl.sum(...) +
\*                      (Nurses[n][3] - Nurses[n][1])*y[n] for n in NRange))
NurseObjective(d, s) ==
    SumRange(0, d.nNurses,
             [n \in NRange(d) |->
                d.Nurses[n + 1][2] * MinimizeInnerSum(d, s.x, n)
                + (d.Nurses[n + 1][4] - d.Nurses[n + 1][2]) * s.y[n]])

NurseProgram == <<
    [cell |-> 2, op |-> "post", names |-> {"assign_day_nurse"}],
    [cell |-> 2, op |-> "post", names |-> {"assign_day_shift"}],
    [cell |-> 3, op |-> "post", names |-> {"day_off_lb"}],
    [cell |-> 3, op |-> "post", names |-> {"day_off_ub"}],
    [cell |-> 4, op |-> "post", names |-> {"limit_nurses"}],
    [cell |-> 5, op |-> "post", names |-> {"if_then"}],
    [cell |-> 6, op |-> "solve", names |-> {}],
    [cell |-> 7, op |-> "model", names |-> {}, name |-> "Nurse scheduling with data"],
    [cell |-> 7, op |-> "post", names |-> {"assign_day_nurse"}],
    [cell |-> 7, op |-> "post", names |-> {"assign_day_shift"}],
    [cell |-> 7, op |-> "post", names |-> {"day_off_lb"}],
    [cell |-> 7, op |-> "post", names |-> {"day_off_ub"}],
    [cell |-> 7, op |-> "post", names |-> {"limit_nurses"}],
    [cell |-> 7, op |-> "post", names |-> {"if_then"}],
    [cell |-> 8, op |-> "post", names |-> {"overtime_definition"}],
    [cell |-> 9, op |-> "objective", names |-> {}, sense |-> "min", expr |-> "nurse_cost"],
    [cell |-> 10, op |-> "solve", names |-> {}] >>

\* y = integer_var_list(nNurses, lb = 0, ub = (nShifts-1)*(nDays-1)): a
\* point carries, for each nurse, the overtime OvertimeDefinition asks for
\* and 0 where it asks for nothing.
Overtime(d, x) ==
    [n \in NRange(d) |->
        IF WorkingShifts(d, x, n) >= d.Nurses[n + 1][3]
        THEN Min(WorkingShifts(d, x, n) - d.Nurses[n + 1][3],
                 (d.nShifts - 1) * (d.nDays - 1))
        ELSE 0]

\* The solver enters its search at x = 0 ...
NurseDomain(d) ==
    { LET x == [day \in DRange(d) |-> [sh \in SRange(d) |-> [n \in NRange(d) |-> 0]]]
      IN  [x |-> x, y |-> Overtime(d, x)] }

\* Days that already have a nurse on some shift.
DaysSet(d, x) ==
    Cardinality({day \in DRange(d) :
                   \E sh \in SRange(d), n \in NRange(d) : x[day][sh][n] = 1})

\* ... and branches on the first day without nurses, giving each nurse a
\* shift of her own.  A branch that sets day k-1 is cut when the days set
\* so far break an upper bound, or an if_then that the new day completes:
\* that of day k-2, and that of day k-1 if it is the last day.
NurseCut(d, x, k) ==
    \/ \E sh \in Range(2, d.nShifts), n \in NRange(d),
          day \in {k - 2} \cup (IF k = d.nDays THEN {k - 1} ELSE {}) :
          /\ day >= 0
          /\ ~if_then_at(d, x, sh, n, day)
    \/ ~limit_nurses(d, [x |-> x])
    \/ ~day_off_ub(d, [x |-> x])

NurseBranches(d, s) ==
    LET k == DaysSet(d, s.x)
    IN  IF k >= d.nDays THEN {}
        ELSE { [x |-> x, y |-> Overtime(d, x)] :
                 x \in { z \in { [s.x EXCEPT ![k] =
                                     [sh \in SRange(d) |->
                                        [n \in NRange(d) |-> IF g[n] = sh THEN 1 ELSE 0]]]
                                  : g \in {h \in [NRange(d) -> SRange(d)] :
                                             \A a, b \in NRange(d) : a # b => h[a] # h[b]} }
                            : ~NurseCut(d, z, k + 1) } }

NurseHolds(c, d, s) ==
    CASE c = "assign_day_nurse" -> assign_day_nurse(d, s)
      [] c = "assign_day_shift" -> assign_day_shift(d, s)
      [] c = "day_off_lb" -> day_off_lb(d, s)
      [] c = "day_off_ub" -> day_off_ub(d, s)
      [] c = "limit_nurses" -> limit_nurses(d, s)
      [] c = "if_then" -> if_then(d, s)
      [] c = "overtime_definition" -> overtime_definition(d, s)

----------------------------------------------------------------------------
(* Python: lo <= e <= hi                                                   *)

\* A chained comparison is (lo <= e) and (e <= hi).  With e an expression
\* of the solver's variables, each comparison builds a constraint object,
\* "and" asks the first one for its truth value and returns the second
\* operand if it is true and the first one otherwise.  The library is not
\* part of the repository, so that truth value is an input.
ChainedComparison(lo, e, hi, truthy) == IF truthy THEN e <= hi ELSE lo <= e

----------------------------------------------------------------------------
(* Two tanks.solution-checkpoint.ipynb                                     *)

\* Horizon (N, 20 in the notebook); volumes and flows are multiples of
\* 1/TankGrid.
TankN == 1
TankGrid == 4

\* The volumes (in units) a point of the domain may hold in a tank.
TankLevels == {0, 1, 5}

TanksData ==
    { [N |-> TankN, xref |-> 5 * TankGrid, x0 |-> 0, uB0 |-> 0,
       x_ub |-> 7 * TankGrid, u_ub |-> 1 * TankGrid,
       truthy |-> b] : b \in BOOLEAN }

NxRange(d) == Range(0, d.N + 1)
NuRange(d) == Range(0, d.N)

dynamics_tank_A(d, s) ==
    \A k \in Range(0, d.N) : s.xA[k + 1] = s.xA[k] + s.uA[k] - s.uB[k]

dynamics_tank_B(d, s) ==
    \A k \in Range(0, d.N) : s.xB[k + 1] = s.xB[k] + s.uB[k]

\* -0.25 <= uA[k] - uA[k-1] <= 0.25: 0.25 is TankGrid \div 4 on the grid
inflow_limit_A(d, s) ==
    \A k \in NuRange(d) :
        ChainedComparison(0 - (TankGrid \div 4), s.uA[k] - s.uA[k - 1],
                          TankGrid \div 4, d.truthy)

inflow_limit_B(d, s) ==
    \A k \in NuRange(d) :
        ChainedComparison(0 - (TankGrid \div 4), s.uB[k] - s.uB[k - 1],
                          TankGrid \div 4, d.truthy)

min_residence_time(d, s) == \A k \in NuRange(d) : s.uB[k] <= s.xA[k]

initial_A(d, s) == s.xA[0] = d.x0
initial_B(d, s) == s.xB[0] = d.x0

\* xp.Sum((xA[k] - xref)**2 + (xB[k] - xref)**2 for k in NxRange)
TanksObjective(d, s) ==
    SumRange(0, d.N + 1,
             [k \in NxRange(d) |->
                (s.xA[k] - d.xref) * (s.xA[k] - d.xref)
                + (s.xB[k] - d.xref) * (s.xB[k] - d.xref)])

TanksProgram == <<
    [cell |-> 3, op |-> "define", names |-> {"dynamics_tank_A"}],
    [cell |-> 3, op |-> "define", names |-> {"dynamics_tank_B"}],
    [cell |-> 4, op |-> "define", names |-> {"inflow_limit_A"}],
    [cell |-> 4, op |-> "define", names |-> {"inflow_limit_B"}],
    [cell |-> 5, op |-> "define", names |-> {"min_residence_time"}],
    [cell |-> 5, op |-> "add",    names |-> {"dynamics_tank_A", "dynamics_tank_A_at_0",
                                             "dynamics_tank_B", "inflow_limit_A",
                                             "inflow_limit_B", "min_residence_time"}],
    [cell |-> 6, op |-> "objective", names |-> {}, sense |-> "min", expr |-> "tank_cost"],
    [cell |-> 7, op |-> "define", names |-> {"initial_A"}],
    [cell |-> 7, op |-> "define", names |-> {"initial_B"}],
    [cell |-> 7, op |-> "add",    names |-> {"initial_A", "initial_B"}],
    [cell |-> 8, op |-> "solve", names |-> {}] >>

\* xA, xB continuous in [0, 7] for k in NxRange; uA, uB continuous in
\* [0, 1] for k in range(-1, N).
TanksDomain(d) ==
    LET X == [NxRange(d) -> {v * TankGrid : v \in TankLevels} \cap (0 .. d.x_ub)]
        U == [Range(-1, d.N) -> 0 .. d.u_ub]
    IN  [xA : X, xB : X, uA : U, uB : U]

TanksHolds(c, d, s) ==
    CASE c = "dynamics_tank_A" -> dynamics_tank_A(d, s)
      [] c = "dynamics_tank_B" -> dynamics_tank_B(d, s)
      [] c = "inflow_limit_A" -> inflow_limit_A(d, s)
      [] c = "inflow_limit_B" -> inflow_limit_B(d, s)
      [] c = "min_residence_time" -> min_residence_time(d, s)
      [] c = "initial_A" -> initial_A(d, s)
      [] c = "initial_B" -> initial_B(d, s)

----------------------------------------------------------------------------
(* Urban zone fares.solution.ipynb                                         *)

\* cfix is a multiple of 1 and cmile a multiple of 1/2, up to these values.
MaxFix == 32
MaxMileHalves == 4

\* Connection(origin, destination, distance, elasticity, base_rideship),
\* the distance and the elasticity in tenths.
connections == <<
    <<"Norreport", "Kastrup", 79, -6, 50>>,
    <<"Norreport", "Glostrup", 121, -7, 3>>,
    <<"Norreport", "Klampenborg", 115, -6, 9>>,
    <<"Norreport", "Herlev", 96, -8, 15>>,
    <<"Norreport", "Christianshavn", 18, -9, 80>>,
    <<"Kastrup", "Glostrup", 183, -7, 8>>,
    <<"Kastrup", "Klampenborg", 191, -5, 9>>,
    <<"Kastrup", "Herlev", 175, -9, 5>>,
    <<"Kastrup", "Christianshavn", 62, -9, 60>>,
    <<"Glostrup", "Klampenborg", 202, -6, 16>>,
    <<"Glostrup", "Herlev", 75, -8, 26>>,
    <<"Glostrup", "Christianshavn", 131, -9, 34>>,
    <<"Klampenborg", "Herlev", 137, -4, 35>>,
    <<"Klampenborg", "Christianshavn", 132, -9, 12>>,
    <<"Herlev", "Christianshavn", 116, -9, 19>> >>

FaresData ==
    { [f0 |-> 15, fmin |-> 10, fmax |-> 40, cdiffmin |-> 0, cdiffmax |-> 30,
       connections |-> connections, truthy |-> b] : b \in BOOLEAN }

\* A point holds cfix, cmile2 = 2 * cmile, f20[c] = 20 * f[c] and
\* P300[c] = 20 * 10 * f0 * P[c].

\* f[c] == cfix + cmile*c.distance
fare_relation(d, s) ==
    \A c \in DOMAIN d.connections :
        s.f20[c] = 20 * s.cfix + s.cmile2 * d.connections[c][3]

\* P[c] == c.base_ridership * (1 + c.elasticity * ((f[c] - f0)/f0))
rideship_relation(d, s) ==
    \A c \in DOMAIN d.connections :
        s.P300[c] = d.connections[c][5]
                      * (200 * d.f0 + d.connections[c][4] * (s.f20[c] - 20 * d.f0))

\* cdiffmin <= cfix - cmile <= cdiffmax
cdiffbound(d, s) ==
    ChainedComparison(2 * d.cdiffmin, 2 * s.cfix - s.cmile2, 2 * d.cdiffmax, d.truthy)

\* xp.Sum(P[c]*f[c] for c in connections)
FaresObjective(d, s) ==
    SumRange(1, Len(d.connections) + 1,
             [c \in DOMAIN d.connections |-> s.P300[c] * s.f20[c]])

FaresProgram == <<
    [cell |-> 3, op |-> "define", names |-> {"fare_relation"}],
    [cell |-> 3, op |-> "define", names |-> {"rideship_relation"}],
    [cell |-> 4, op |-> "define", names |-> {"cdiffbound"}],
    [cell |-> 4, op |-> "add",    names |-> {"fare_relation", "rideship_relation",
                                             "cdiffbound"}],
    [cell |-> 5, op |-> "objective", names |-> {}, sense |-> "max", expr |-> "revenue"],
    [cell |-> 6, op |-> "solve", names |-> {}] >>

\* The fares and riderships that go with cfix and cmile.
FaresPoint(d, cfix, cmile2) ==
    LET f20 == [c \in DOMAIN d.connections |-> 20 * cfix + cmile2 * d.connections[c][3]]
    IN  [cfix |-> cfix, cmile2 |-> cmile2, f20 |-> f20,
         P300 |-> [c \in DOMAIN d.connections |->
                     d.connections[c][5]
                       * (200 * d.f0 + d.connections[c][4] * (f20[c] - 20 * d.f0))]]

\* f in [fmin, fmax]; cfix, cmile and P with lb = 0.
FaresDomain(d) ==
    { s \in { FaresPoint(d, cfix, cmile2) :
                cfix \in 0 .. MaxFix, cmile2 \in 0 .. MaxMileHalves }
        : \A c \in DOMAIN d.connections :
            /\ 20 * d.fmin <= s.f20[c]
            /\ s.f20[c] <= 20 * d.fmax
            /\ s.P300[c] >= 0 }

FaresHolds(c, d, s) ==
    CASE c = "fare_relation" -> fare_relation(d, s)
      [] c = "rideship_relation" -> rideship_relation(d, s)
      [] c = "cdiffbound" -> cdiffbound(d, s)

----------------------------------------------------------------------------
(* Portfolio optimization2-checkpoint.ipynb                                *)

\* Number of investments (30 stocks in the notebook), and the grid of the
\* fractions x: multiples of 1/PortfolioGrid.
PortfolioSize == 2
PortfolioGrid == 2

\* The returns are downloaded when the notebook runs: the mean and the
\* sigma of an investment are inputs, here in units of 1/10000.
MeanValues == {-3, 2, 3}
SigmaValues == {1, 2}

\* norm.ppf(beta) for beta = 0.05 is -1.645 (to three decimals), kept as
\* the fraction PpfNum / PpfDen.
PpfNum == -1645
PpfDen == 1000

PortfolioData ==
    { [investments |-> 1 .. PortfolioSize, mean |-> m, sigma |-> sg] :
        m \in [1 .. PortfolioSize -> MeanValues],
        sg \in [1 .. PortfolioSize -> SigmaValues] }

\* min / max of inv.mean over the investments
MinMean(d) == CHOOSE v \in {d.mean[i] : i \in d.investments} :
                  \A i \in d.investments : v <= d.mean[i]
MaxMean(d) == CHOOSE v \in {d.mean[i] : i \in d.investments} :
                  \A i \in d.investments : v >= d.mean[i]

\* A point holds xg[i] = PortfolioGrid * x[i] and
\* x_all_g = PortfolioGrid * x_all.

\* xp.Sum(inv.mean*x[inv] for inv in investments), times PortfolioGrid
ExpectedReturn(d, s) ==
    SumRange(1, PortfolioSize + 1, [i \in d.investments |-> d.mean[i] * s.xg[i]])

\* xp.Sum(x[inv] for inv in investments) == 1
enforcing_investment_amount(d, s) ==
    SumRange(1, PortfolioSize + 1, [i \in d.investments |-> s.xg[i]]) = PortfolioGrid

\* x_all == xp.Sum(inv.mean*x[inv] for inv in investments)
link_x_all(d, s) == s.x_all_g = ExpectedReturn(d, s)

\* xp.Sum((inv.sigma*x[inv])**2 for inv in investments), times
\* PortfolioGrid squared
SumSquares(d, s) ==
    SumRange(1, PortfolioSize + 1,
             [i \in d.investments |-> (d.sigma[i] * s.xg[i]) * (d.sigma[i] * s.xg[i])])

\* (norm.ppf(beta))**2 * xp.Sum(...) <= x_all**2
enforce_risk_limit(d, s) ==
    PpfNum * PpfNum * SumSquares(d, s) <= PpfDen * PpfDen * s.x_all_g * s.x_all_g

PortfolioProgram == <<
    [cell |-> 3, op |-> "objective", names |-> {}, sense |-> "min",
     expr |-> "expected_return"],
    [cell |-> 4, op |-> "define", names |-> {"enforcing_investment_amount"}],
    [cell |-> 6, op |-> "define", names |-> {"link_x_all"}],
    [cell |-> 6, op |-> "define", names |-> {"enforce_risk_limit"}],
    [cell |-> 6, op |-> "add",    names |-> {"enforcing_investment_amount", "link_x_all",
                                             "enforce_risk_limit"}],
    [cell |-> 7, op |-> "solve", names |-> {}] >>

\* x continuous in [0, 1]; x_all continuous in [min mean, max mean].
PortfolioDomain(d) ==
    [xg : [d.investments -> 0 .. PortfolioGrid],
     x_all_g : (PortfolioGrid * MinMean(d)) .. (PortfolioGrid * MaxMean(d))]

PortfolioHolds(c, d, s) ==
    CASE c = "enforcing_investment_amount" -> enforcing_investment_amount(d, s)
      [] c = "link_x_all" -> link_x_all(d, s)
      [] c = "enforce_risk_limit" -> enforce_risk_limit(d, s)

----------------------------------------------------------------------------
(* Facility location problem.solution-checkpoint.ipynb                     *)

\* The candidate sites are the points (i, j) of a square grid (range(3) x
\* range(3) in the notebook); a flow takes the values
\* max_transport_from_facility * k / FlowSteps, k in 0 .. FlowSteps.
FacilitySide == 2
FlowSteps == 1

mileage_cost == 1
max_transport_from_facility == 3

construction_cost == << <<3, 2, 3>>, <<1, 3, 3>>, <<4, 3, 2>> >>

\* Coordinates and distances are in tenths.
CoordinateScale == 10

\* Client A at (0, 1.5) with demand 3, Client B at (2.5, 1.2) with demand 4
clients == << [name |-> "Client A", coordinate |-> <<0, 15>>, demand |-> 3],
              [name |-> "Client B", coordinate |-> <<25, 12>>, demand |-> 4] >>

\* Facility(f'Facility ({i},{j})', (i,j), construction_cost[i,j])
\*   for i in range(3) for j in range(3), numbered in the order of the list
facilities ==
    [k \in 0 .. (FacilitySide * FacilitySide - 1) |->
        [coordinate |-> <<CoordinateScale * (k \div FacilitySide),
                          CoordinateScale * (k % FacilitySide)>>,
         construction_cost |-> construction_cost[(k \div FacilitySide) + 1]
                                                [(k % FacilitySide) + 1]]]

\* Unit.get_distance: np.sqrt(np.sum(np.square(np.subtract(...)))),
\* rounded down to a tenth.
get_distance(a, b) ==
    LET dx == a[1] - b[1]
        dy == a[2] - b[2]
        sq == dx * dx + dy * dy
    IN  CHOOSE r \in 0 .. (4 * CoordinateScale) : r * r <= sq /\ sq < (r + 1) * (r + 1)

\* Connection(origin, destination).distance for every pair
distance ==
    [k \in DOMAIN facilities |->
        [c \in DOMAIN clients |->
            get_distance(facilities[k].coordinate, clients[c].coordinate)]]

\* n_factories is the value assigned in the data cell (3 in the notebook).
FacilityData == { [n_factories |-> n] : n \in 1 .. (FacilitySide * FacilitySide) }

FacilityRange == 0 .. (FacilitySide * FacilitySide - 1)
ClientRange == 1 .. Len(clients)

\* A point holds x[k] in {0, 1} and fl[k][c], the flow of the connection
\* from facility k to client c in units of
\* max_transport_from_facility / FlowSteps.

\* xp.Sum(f[c] for c in connections if c.origin == fac)
\*     <= max_transport_from_facility, for fac in facilities
maximum_capacity(d, s) ==
    \A k \in FacilityRange :
        max_transport_from_facility *
            SumRange(1, Len(clients) + 1, [c \in ClientRange |-> s.fl[k][c]])
        <= max_transport_from_facility * FlowSteps

\* flows_zero_if_not_selected without the factor x[c.origin]
Mut_flows_zero_if_not_selected(d, s) ==
    \A k \in FacilityRange : \A c \in ClientRange :
        max_transport_from_facility * s.fl[k][c]
        <= max_transport_from_facility * FlowSteps

\* f[c] <= max_transport_from_facility*x[c.origin], for c in connections
flows_zero_if_not_selected(d, s) ==
    \A k \in FacilityRange : \A c \in ClientRange :
        max_transport_from_facility * s.fl[k][c]
        <= max_transport_from_facility * s.x[k] * FlowSteps

\* xp.Sum(x[fac] for fac in facilities)
FacilitiesBuilt(s) ==
    SumRange(0, FacilitySide * FacilitySide, [k \in FacilityRange |-> s.x[k]])

\* xp.constraint(xp.Sum(x[fac] for fac in facilities) == 3,
\*               name=f'Fix number of factories to {n_factories}')
fix_number_of_factories(d, s) == FacilitiesBuilt(s) = 3

\* The number the name of fix_number_of_factories reports.
fix_number_of_factories_name(d) == d.n_factories

\* xp.Sum(f[c] for c in connections if c.destination == client)
\*     >= client.demand, for client in clients
demand_satisfaction(d, s) ==
    \A c \in ClientRange :
        max_transport_from_facility *
            SumRange(0, FacilitySide * FacilitySide, [k \in FacilityRange |-> s.fl[k][c]])
        >= clients[c].demand * FlowSteps

\* xp.Sum(fac.construction_cost*x[fac] + xp.Sum(mileage_cost*c.distance*f[c]
\*   for c in connections if c.origin == fac) for fac in facilities),
\* times CoordinateScale * FlowSteps
FacilityObjective(d, s) ==
    SumRange(0, FacilitySide * FacilitySide,
        [k \in FacilityRange |->
            facilities[k].construction_cost * s.x[k] * CoordinateScale * FlowSteps
            + SumRange(1, Len(clients) + 1,
                  [c \in ClientRange |->
                      mileage_cost * distance[k][c] * s.fl[k][c]
                          * max_transport_from_facility])])

FacilityProgram == <<
    [cell |-> 4, op |-> "define", names |-> {"maximum_capacity"}],
    [cell |-> 5, op |-> "define", names |-> {"flows_zero_if_not_selected"}],
    [cell |-> 6, op |-> "define", names |-> {"fix_number_of_factories"}],
    [cell |-> 7, op |-> "define", names |-> {"demand_satisfaction"}],
    [cell |-> 7, op |-> "add",    names |-> {"maximum_capacity", "flows_zero_if_not_selected",
                                             "fix_number_of_factories", "demand_satisfaction"}],
    [cell |-> 8, op |-> "objective", names |-> {}, sense |-> "min",
     expr |-> "facility_cost"],
    [cell |-> 9, op |-> "solve", names |-> {}] >>

\* x binary; f continuous in [0, max_transport_from_facility].
FacilityDomain(d) ==
    [x : [FacilityRange -> 0 .. 1],
     fl : [FacilityRange -> [ClientRange -> 0 .. FlowSteps]]]

FacilityHolds(c, d, s) ==
    CASE c = "maximum_capacity" -> maximum_capacity(d, s)
      [] c = "flows_zero_if_not_selected" -> flows_zero_if_not_selected(d, s)
      [] c = "fix_number_of_factories" -> fix_number_of_factories(d, s)
      [] c = "demand_satisfaction" -> demand_satisfaction(d, s)

----------------------------------------------------------------------------
(* src/unnamed/part_001: Basin-hopping algorithm in scipy                  *)

\* Iterations of one basinhopping call the model follows (niter is 200 in
\* the first call of the notebook and 10 in the others).
MaxNiter == 6

\* Coordinates and values of func are in units of 1/10000.

\* func = lambda x: np.cos(14.5 * x[0] - 0.3) + (x[1] + 0.2) * x[1]
\*                  + (x[0] + 0.2) * x[0]
\* The local minimiser ends in a local minimum of func.  In x[1] func is
\* the parabola (x[1] + 0.2) * x[1], whose only minimum is x[1] = -0.1; in
\* x[0] the minima between -1.5 and 1.6 are the ones listed, with the
\* value of func there (the notebook prints the fifth and the eighth).
func_minima == <<
    [x |-> <<-14827, -1000>>, fun |-> 9102],
    [x |-> <<-10535, -1000>>, fun |-> -1021],
    [x |-> <<-6243, -1000>>,  fun |-> -7425],
    [x |-> <<-1951, -1000>>,  fun |-> -10109],
    [x |-> <<2342, -1000>>,   fun |-> -9073],
    [x |-> <<6634, -1000>>,   fun |-> -4317],
    [x |-> <<10926, -1000>>,  fun |-> 4159],
    [x |-> <<15218, -1000>>,  fun |-> 16355] >>

\* x0 = [1.0, 1.0]
x0 == <<10000, 10000>>

Abs(a) == IF a < 0 THEN -a ELSE a

\* minimizer_kwargs = {"method": "L-BFGS-B"}: the local minimisation from
\* the point x goes downhill to the minimum of the basin x[0] lies in,
\* the nearest of the minima.
minimizer(x) ==
    LET k == CHOOSE i \in DOMAIN func_minima :
                 \A j \in DOMAIN func_minima :
                     Abs(func_minima[i].x[1] - x[1]) <= Abs(func_minima[j].x[1] - x[1])
    IN  func_minima[k]

\* The random displacement of a step, uniform in [-stepsize, stepsize]
\* per coordinate with stepsize = 0.5, on a grid of quarters.
Displacements == {-5000, -2500, 0, 2500, 5000}

\* MyBounds.__call__ / MyBounds2.__call__:
\*   tmax = bool(np.all(x <= self.xmax)); tmin = bool(np.all(x >= self.xmin))
\*   return tmax and tmin
MyBounds_call(xmax, xmin, x_new) ==
    LET tmax == \A i \in 1 .. 2 : x_new[i] <= xmax[i]
        tmin == \A i \in 1 .. 2 : x_new[i] >= xmin[i]
    IN  tmax /\ tmin

\* MyBounds.__init__(xmax=[1.1,1.1], xmin=[-1.1,-1.1])
MyBounds(x_new) == MyBounds_call(<<11000, 11000>>, <<-11000, -11000>>, x_new)

\* MyBounds2.__init__(xmax=[1.1,1.1], xmin=[0.5,0.5])
MyBounds2(x_new) == MyBounds_call(<<11000, 11000>>, <<5000, 5000>>, x_new)

\* The accept_test argument of the call, applied to x_new.
accept_test(name, x_new) ==
    CASE name = "none" -> TRUE
      [] name = "mybounds" -> MyBounds(x_new)
      [] name = "mybounds2" -> MyBounds2(x_new)

HoppingProgram == <<
    [cell |-> 1, op |-> "basinhopping", names |-> {}, niter |-> 200,
     accept_test |-> "none"],
    [cell |-> 2, op |-> "define", names |-> {"MyBounds"}],
    [cell |-> 3, op |-> "basinhopping", names |-> {}, niter |-> 10,
     accept_test |-> "mybounds"],
    [cell |-> 4, op |-> "define", names |-> {"MyBounds2"}],
    [cell |-> 5, op |-> "basinhopping", names |-> {}, niter |-> 10,
     accept_test |-> "mybounds2"] >>

----------------------------------------------------------------------------
(* The kernel and the solver.                                              *)

Program(n) ==
    CASE n = "N-queens problem" -> QueensProgram
      [] n = "Doctors scheduling" -> DoctorsProgram
      [] n = "Batch scheduling" -> BatchProgram
      [] n = "Nurse scheduling" -> NurseProgram
      [] n = "Two tank problem" -> TanksProgram
      [] n = "Urban zone fares" -> FaresProgram
      [] n = "Portfolio optimization" -> PortfolioProgram
      [] n = "Facility location problem" -> FacilityProgram
      [] n = "Basin-hopping" -> HoppingProgram

\* The points at which the solver enters its search ...
Domain(n, d) ==
    CASE n = "N-queens problem" -> QueensDomain(d)
      [] n = "Doctors scheduling" -> DoctorsDomain(d)
      [] n = "Batch scheduling" -> BatchDomain(d)
      [] n = "Nurse scheduling" -> NurseDomain(d)
      [] n = "Two tank problem" -> TanksDomain(d)
      [] n = "Urban zone fares" -> FaresDomain(d)
      [] n = "Portfolio optimization" -> PortfolioDomain(d)
      [] n = "Facility location problem" -> FacilityDomain(d)

\* ... and the points it moves to from a point s.
Branches(n, d, s) ==
    CASE n = "N-queens problem" -> QueensBranches(d, s)
      [] n = "Doctors scheduling" -> DoctorsBranches(d, s)
      [] n = "Nurse scheduling" -> NurseBranches(d, s)
      [] OTHER -> {}

Holds(n, c, d, s) ==
    CASE n = "N-queens problem" -> QueensHolds(c, d, s)
      [] n = "Doctors scheduling" -> DoctorsHolds(c, d, s)
      [] n = "Batch scheduling" -> BatchHolds(c, d, s)
      [] n = "Nurse scheduling" -> NurseHolds(c, d, s)
      [] n = "Two tank problem" -> TanksHolds(c, d, s)
      [] n = "Urban zone fares" -> FaresHolds(c, d, s)
      [] n = "Portfolio optimization" -> PortfolioHolds(c, d, s)
      [] n = "Facility location problem" -> FacilityHolds(c, d, s)

\* The value of the objective expression at a point.
ObjValue(n, o, d, s) ==
    CASE o.expr = "sum_t" -> DoctorsObjective(d, s)
      [] o.expr = "labor_cost" -> BatchObjective(d, s)
      [] o.expr = "nurse_cost" -> NurseObjective(d, s)
      [] o.expr = "tank_cost" -> TanksObjective(d, s)
      [] o.expr = "revenue" -> FaresObjective(d, s)
      [] o.expr = "expected_return" -> ExpectedReturn(d, s)
      [] o.expr = "facility_cost" -> FacilityObjective(d, s)
      [] OTHER -> 0

\* A point satisfies the model: every constraint handed to it holds.
Satisfies(n, cs, d, s) == \A c \in cs : Holds(n, c, d, s)

\* a is at least as good as b for the sense of the objective.
AsGood(o, a, b) == IF o.sense = "min" THEN a <= b ELSE a >= b

NoObjective == [sense |-> "none", expr |-> "none"]

\* Every point the search comes to from the points of F.
RECURSIVE Search(_, _, _)
Search(n, d, F) ==
    IF F = {} THEN {}
    ELSE F \cup Search(n, d, UNION { Branches(n, d, t) : t \in F })

\* The objective value of the best feasible point; no value without an
\* objective or without a feasible point.
BestValue(n, cs, o, d) ==
    IF o.sense = "none" THEN {}
    ELSE LET vals == { ObjValue(n, o, d, t) :
                         t \in {u \in Search(n, d, Domain(n, d)) :
                                  Satisfies(n, cs, d, u)} }
         IN  {v \in vals : \A w \in vals : AsGood(o, v, w)}

\* No feasible point has a better objective than s.
IsBest(n, o, d, s, b) == o.sense # "none" => ObjValue(n, o, d, s) \in b

Running == pc < Len(Program(nb))
Stmt == Program(nb)[pc + 1]

\* The first statement after cell c (a raised exception aborts its cell).
AfterCell(c) ==
    LET P == Program(nb)
        later == {i \in 1 .. Len(P) : i > pc /\ P[i].cell # c}
    IN  IF later = {} THEN Len(P)
        ELSE (CHOOSE i \in later : \A j \in later : i <= j) - 1

\* name = (xp.constraint(...) for ...) / name = xp.constraint(...)
Define ==
    /\ Running
    /\ Stmt.op = "define"
    /\ defined' = defined \cup Stmt.names
    /\ pc' = pc + 1
    /\ UNCHANGED <<nb, data, added, objective, sol, status, optimal, bound,
                   errors, calls>>

\* model.addConstraint(c1, c2, ...) with every argument bound
AddConstraint ==
    /\ Running
    /\ Stmt.op = "add"
    /\ Stmt.names \subseteq defined
    /\ added' = added \cup Stmt.names
    /\ pc' = pc + 1
    /\ UNCHANGED <<nb, data, defined, objective, sol, status, optimal, bound,
                   errors, calls>>

\* mdl.add_constraints(...) / mdl.add_if_then(...) /
\* mdl.add_constraint(mdl.if_then(...)): the constraints are built in the
\* call that adds them.
PostConstraints ==
    /\ Running
    /\ Stmt.op = "post"
    /\ added' = added \cup Stmt.names
    /\ pc' = pc + 1
    /\ UNCHANGED <<nb, data, defined, objective, sol, status, optimal, bound,
                   errors, calls>>

\* mdl = Model(name): the names of the notebook now refer to a new, empty
\* model and the old one, with its solution, is dropped.
NewModel ==
    /\ Running
    /\ Stmt.op = "model"
    /\ added' = {}
    /\ objective' = NoObjective
    /\ sol' = "none"
    /\ status' = "building"
    /\ optimal' = FALSE
    /\ bound' = {}
    /\ pc' = pc + 1
    /\ UNCHANGED <<nb, data, defined, errors, calls>>

\* The name of the model the statements now work on.
CurrentModel ==
    LET P == Program(nb)
        ms == {i \in 1 .. pc : P[i].op = "model"}
    IN  IF ms = {} THEN nb
        ELSE P[CHOOSE i \in ms : \A j \in ms : j <= i].name

\* model.addConstraint(..., name, ...) with a name that was never bound:
\* Python raises NameError while it evaluates the arguments, nothing is
\* added and the rest of the cell does not run.  "Run All" stops there;
\* run one by one, the cells that follow still execute.
RaiseNameError ==
    /\ Running
    /\ Stmt.op = "add"
    /\ ~(Stmt.names \subseteq defined)
    /\ errors' = errors \cup (Stmt.names \ defined)
    /\ \E run_all \in BOOLEAN :
          pc' = IF run_all THEN Len(Program(nb)) ELSE AfterCell(Stmt.cell)
    /\ UNCHANGED <<nb, data, defined, added, objective, sol, status, optimal,
                   bound, calls>>

\* model.setObjective(expr) / model.setObjective(expr, sense = ...) /
\* mdl.minimize(expr): the statement carries the sense the solver ends up
\* with, which is its default, minimisation, when the call names none.
SetObjective ==
    /\ Running
    /\ Stmt.op = "objective"
    /\ objective' = [sense |-> Stmt.sense, expr |-> Stmt.expr]
    /\ pc' = pc + 1
    /\ UNCHANGED <<nb, data, defined, added, sol, status, optimal, bound,
                   errors, calls>>

\* model.solve()
Solve ==
    /\ Running
    /\ Stmt.op = "solve"
    /\ bound' = BestValue(nb, added, objective, data)
    /\ \E s \in Domain(nb, data) :
          LET feasible == Satisfies(nb, added, data, s)
          IN  /\ sol' = s
              /\ status' = IF feasible THEN "feasible" ELSE "infeasible"
              /\ optimal' = (feasible /\ IsBest(nb, objective, data, s, bound'))
    /\ calls' = calls + 1
    /\ pc' = pc + 1
    /\ UNCHANGED <<nb, data, defined, added, objective, errors>>

\* The solver, inside a call, moves on to another point of the domain.
Branch ==
    /\ pc > 0
    /\ Program(nb)[pc].op = "solve"
    /\ \E s \in Branches(nb, data, sol) :
          LET feasible == Satisfies(nb, added, data, s)
          IN  /\ sol' = s
              /\ status' = IF feasible THEN "feasible" ELSE "infeasible"
              /\ optimal' = (feasible /\ IsBest(nb, objective, data, s, bound))
    /\ UNCHANGED <<nb, data, pc, defined, added, objective, bound, errors, calls>>

InitKernel ==
    /\ pc = 0
    /\ defined = {}
    /\ added = {}
    /\ objective = NoObjective
    /\ sol = "none"
    /\ status = "building"
    /\ optimal = FALSE
    /\ bound = {}
    /\ errors = {}
    /\ calls = 0

----------------------------------------------------------------------------
(* N-queens problem: specification and claim C3.                           *)

InitQueens ==
    /\ nb = "N-queens problem"
    /\ data \in QueensData
    /\ InitKernel

NextQueens == Define \/ AddConstraint \/ Solve \/ Branch

SpecQueens == InitQueens /\ [][NextQueens]_vars

\* Two distinct queens attack each other: same row, column or diagonal.
Attack(p, q) ==
    \/ p[1] = q[1]
    \/ p[2] = q[2]
    \/ p[1] - p[2] = q[1] - q[2]
    \/ p[1] + p[2] = q[1] + q[2]

Queens(x) == {pos \in DOMAIN x : x[pos] = 1}

NonAttackingPlacement(d, x) ==
    /\ Cardinality(Queens(x)) = d.n
    /\ \A p, q \in Queens(x) : p # q => ~Attack(p, q)

\* C3: once all constraints are in the n_queens model, a 0/1 assignment
\* satisfies them if and only if it places exactly n queens no two of which
\* share a row, a column or a diagonal of either direction.
C3_QueensIff ==
    (nb = "N-queens problem" /\ status # "building") =>
        ((status = "feasible") <=> NonAttackingPlacement(data, sol.x))

\* A board of size 4 with a feasible placement has been examined.
C3_Witness ==
    /\ nb = "N-queens problem"
    /\ status = "feasible"
    /\ data.n = 4
    /\ NonAttackingPlacement(data, sol.x)

----------------------------------------------------------------------------
(* Doctors scheduling: specification and claims C1, C6.                    *)

InitDoctors ==
    /\ nb = "Doctors scheduling"
    /\ data \in DoctorsData
    /\ InitKernel

NextDoctors == Define \/ AddConstraint \/ SetObjective \/ Solve \/ Branch

SpecDoctors == InitDoctors /\ [][NextDoctors]_vars

\* The doctor works the night shift that starts on day t (in some hospital).
WorksNight(d, x, doc, t) ==
    \E p \in placements(d) :
        /\ p[1] = doc
        /\ p[2][1] = t
        /\ is_nightshift(p[2])
        /\ x[p] = 1

\* The doctor works some shift that starts on day t.
WorksOn(d, x, doc, t) ==
    \E p \in placements(d) : p[1] = doc /\ start_date(p[2]) = t /\ x[p] = 1

\* The doctor starts a night-shift block on day t: works the night of t and
\* not the night of t-1 (day 0 has no night before it).
StartsBlock(d, x, doc, t) ==
    WorksNight(d, x, doc, t) /\ (t > 0 => ~WorksNight(d, x, doc, t - 1))

\* C1: under the constraints of the doctors model, a doctor who starts a
\* night-shift block on day t works the night shifts of days t, t+1, t+2 and
\* no shift on days t+3, t+4, t+5 (days after the end of the roster are left
\* out of the requirement).
C1_NightBlocks ==
    (nb = "Doctors scheduling" /\ status = "feasible") =>
        \A doc \in data.doctors, t \in shift_days(data) :
            StartsBlock(data, sol.x, doc, t) =>
                /\ \A k \in Range(0, 3) :
                      t + k \in shift_days(data) => WorksNight(data, sol.x, doc, t + k)
                /\ \A k \in Range(3, 6) :
                      t + k \in shift_days(data) => ~WorksOn(data, sol.x, doc, t + k)

\* C6: in a feasible point of the doctors model, y[d,t] is the difference
\* between working the night shift of day t and that of day t-1: 1 at the
\* start of a block, -1 the day after its end, 0 otherwise (stated for the
\* days that have a day before them).
C6_YIsNightDifference ==
    (nb = "Doctors scheduling" /\ status = "feasible") =>
        \A doc \in data.doctors, t \in shift_days(data) :
            t > 0 =>
                sol.y[<<doc, t>>] =
                    (IF WorksNight(data, sol.x, doc, t) THEN 1 ELSE 0)
                    - (IF WorksNight(data, sol.x, doc, t - 1) THEN 1 ELSE 0)

----------------------------------------------------------------------------
(* Batch scheduling: specification and claim C2.                           *)

InitBatch ==
    /\ nb = "Batch scheduling"
    /\ data \in BatchData
    /\ InitKernel

NextBatch == Define \/ AddConstraint \/ SetObjective

SpecBatch == InitBatch /\ [][NextBatch]_vars

\* C2: once the notebook has run, every production schedule that satisfies
\* the constraints added to the batch model keeps the warehouse within the
\* age limit: W[j] <= sum of w[j-n] for n = 0..min(j, A_max), for every day j.
C2_WarehouseAge ==
    (nb = "Batch scheduling" /\ ~Running) =>
        \A s \in BatchDomain(data) :
            Satisfies(nb, added, data, s) => warehouse_age_limit(data, s)

----------------------------------------------------------------------------
(* Nurse scheduling: specification and claims C4, C5.                      *)

InitNurse ==
    /\ nb = "Nurse scheduling"
    /\ data \in NurseData
    /\ InitKernel

NextNurse == PostConstraints \/ NewModel \/ SetObjective \/ Solve \/ Branch

SpecNurse == InitNurse /\ [][NextNurse]_vars

\* The cost the markdown gives: regular cost for the working shifts that
\* are not overtime, overtime cost for the others.
StatedCost(d, s) ==
    SumRange(0, d.nNurses,
             [n \in NRange(d) |->
                d.Nurses[n + 1][2] * (WorkingShifts(d, s.x, n) - s.y[n])
                + d.Nurses[n + 1][4] * s.y[n]])

\* C4: the objective minimised by the model 'Nurse scheduling with data'
\* equals, at every point (x, y), the sum over the nurses of
\* c_regular * (W - y) + c_overtime * y, W being the sum of x[d,s,n] over
\* all days and all shifts s >= 1 (stated for the feasible points).
C4_ObjectiveIsStatedCost ==
    (nb = "Nurse scheduling" /\ CurrentModel = "Nurse scheduling with data"
        /\ status = "feasible") =>
        ObjValue(nb, objective, data, sol) = StatedCost(data, sol)

\* C5: in a feasible schedule of the model 'Nurse scheduling', a nurse who
\* works shift 2 or 3 on a day works the same shift on the day before or on
\* the day after; the first day has no day before it and the last day no day
\* after it.
C5_SameShiftNextToIt ==
    (nb = "Nurse scheduling" /\ CurrentModel = "Nurse scheduling"
        /\ status = "feasible") =>
        \A n \in NRange(data), day \in DRange(data), sh \in {2, 3} :
            sol.x[day][sh][n] = 1 =>
                \/ day > 0 /\ sol.x[day - 1][sh][n] = 1
                \/ day < data.nDays - 1 /\ sol.x[day + 1][sh][n] = 1

\* A feasible schedule of the first model in which some nurse works shift 2
\* or 3 on the first and on the last day of the week.
C5_Witness ==
    /\ nb = "Nurse scheduling"
    /\ CurrentModel = "Nurse scheduling"
    /\ status = "feasible"
    /\ \E n, m \in NRange(data), sh, th \in {2, 3} :
          /\ sol.x[0][sh][n] = 1
          /\ sol.x[data.nDays - 1][th][m] = 1

\* C12: running the cells of a notebook once, in order, makes exactly one
\* call to the solver: never a second one, and one by the time the last
\* cell has run.
C12_OneSolverCall ==
    nb = "Nurse scheduling" => (calls <= 1 /\ (~Running => calls = 1))

----------------------------------------------------------------------------
(* Two tanks and Urban zone fares: specification and claim C7.             *)

InitChained ==
    \/ /\ nb = "Two tank problem"
       /\ data \in TanksData
       /\ InitKernel
    \/ /\ nb = "Urban zone fares"
       /\ data \in FaresData
       /\ InitKernel

NextChained == Define \/ AddConstraint \/ RaiseNameError \/ SetObjective \/ Solve

SpecChained == InitChained /\ [][NextChained]_vars

\* C7: a feasible solution respects both sides of every bound written as a
\* chained comparison: -0.25 <= uA[k] - uA[k-1] <= 0.25 and the same for uB,
\* for every k in 0..N-1, in the two tank problem, and
\* cdiffmin <= cfix - cmile <= cdiffmax in the urban zone fares.
C7_BothSidesEnforced ==
    /\ (nb = "Two tank problem" /\ status = "feasible") =>
          \A k \in NuRange(data) :
              /\ 0 - (TankGrid \div 4) <= sol.uA[k] - sol.uA[k - 1]
              /\ sol.uA[k] - sol.uA[k - 1] <= TankGrid \div 4
              /\ 0 - (TankGrid \div 4) <= sol.uB[k] - sol.uB[k - 1]
              /\ sol.uB[k] - sol.uB[k - 1] <= TankGrid \div 4
    /\ (nb = "Urban zone fares" /\ status = "feasible") =>
          /\ 2 * data.cdiffmin <= 2 * sol.cfix - sol.cmile2
          /\ 2 * sol.cfix - sol.cmile2 <= 2 * data.cdiffmax

\* C14: in the Two tank problem every collection passed to
\* model.addConstraint was defined by an earlier statement, so no cell
\* stops with an exception.
C14_NoException ==
    nb = "Two tank problem" =>
        /\ errors = {}
        /\ (Running /\ Stmt.op = "add") => Stmt.names \subseteq defined

----------------------------------------------------------------------------
(* Portfolio optimization: specification and claims C8, C9.                *)

InitPortfolio ==
    /\ nb = "Portfolio optimization"
    /\ data \in PortfolioData
    /\ InitKernel

NextPortfolio == Define \/ AddConstraint \/ SetObjective \/ Solve

SpecPortfolio == InitPortfolio /\ [][NextPortfolio]_vars

\* C8: the point model.solve() returns maximises the expected return
\* sum_i mean_i * x_i over the portfolios that satisfy the constraints of
\* the model.
C8_MaximisesReturn ==
    (nb = "Portfolio optimization" /\ status = "feasible" /\ optimal) =>
        \A t \in PortfolioDomain(data) :
            Satisfies(nb, added, data, t) =>
                ExpectedReturn(data, t) <= ExpectedReturn(data, sol)

\* The constraint before squaring: x_all + ppf * sqrt(SumSquares) >= 0.
\* With ppf < 0 it says x_all >= |ppf| * sqrt(SumSquares), that is
\* x_all >= 0 and x_all^2 >= ppf^2 * SumSquares.
OriginalRiskLimit(d, s) ==
    /\ s.x_all_g >= 0
    /\ PpfDen * PpfDen * s.x_all_g * s.x_all_g >= PpfNum * PpfNum * SumSquares(d, s)

\* C9: for every x in [0, 1] and x_all within its bounds with
\* x_all = sum_i mean_i * x_i, the squared constraint added to the model
\* holds if and only if the constraint before squaring holds.
C9_SquaringKeepsValidity ==
    (nb = "Portfolio optimization" /\ status # "building" /\ link_x_all(data, sol)) =>
        (enforce_risk_limit(data, sol) <=> OriginalRiskLimit(data, sol))

----------------------------------------------------------------------------
(* Facility location problem: specification and claim C10.                 *)

InitFacility ==
    /\ nb = "Facility location problem"
    /\ data \in FacilityData
    /\ InitKernel

NextFacility == Define \/ AddConstraint \/ SetObjective \/ Solve

SpecFacility == InitFacility /\ [][NextFacility]_vars

\* C10: in every feasible solution the number of facilities built equals
\* n_factories, the number the name of the constraint reports, whatever
\* value the data cell assigns to n_factories.
C10_BuiltEqualsNFactories ==
    (nb = "Facility location problem" /\ status = "feasible") =>
        FacilitiesBuilt(sol) = fix_number_of_factories_name(data)

\* C11: in every feasible solution a facility that is not selected ships
\* nothing: x[i] = 0 implies f[c] = 0 for every connection c from i.
C11_UnselectedShipsNothing ==
    (nb = "Facility location problem" /\ status = "feasible") =>
        \A k \in FacilityRange :
            sol.x[k] = 0 => \A c \in ClientRange : sol.fl[k][c] = 0

\* A feasible solution with a facility left out while the others ship.
C11_Witness ==
    /\ nb = "Facility location problem"
    /\ status = "feasible"
    /\ \E k \in FacilityRange : sol.x[k] = 0
    /\ \E k \in FacilityRange : \E c \in ClientRange : sol.fl[k][c] > 0

----------------------------------------------------------------------------
(* Basin-hopping: the calls of basinhopping, specification and claim C13.  *)

\* basinhopping(func, x0, ...) starts: the local minimum reached from x0
\* becomes the current point and the best point stored, before any step
\* and without a call of accept_test.
StartHopping ==
    /\ Running
    /\ Stmt.op = "basinhopping"
    /\ status # "hopping"
    /\ LET minres == minimizer(x0)
       IN  sol' = [x |-> minres.x, energy |-> minres.fun,
                   best |-> minres, nstep |-> 0,
                   accept_test |-> Stmt.accept_test]
    /\ status' = "hopping"
    /\ calls' = calls + 1
    /\ UNCHANGED <<nb, data, pc, defined, added, objective, optimal, bound, errors>>

\* One cycle: a random step from the current point, a local minimisation,
\* then the tests: the accept_test of the call and the Metropolis
\* criterion (a lower value is always accepted, another one at random).
\* An accepted point becomes the current point, and the best point if its
\* value is lower than the stored one.
HopCycle ==
    /\ status = "hopping"
    /\ sol.nstep < Min(Stmt.niter, MaxNiter)
    /\ \E dx \in Displacements, dy \in Displacements, metropolis \in BOOLEAN :
          LET minres == minimizer(<<sol.x[1] + dx, sol.x[2] + dy>>)
              accept == /\ accept_test(sol.accept_test, minres.x)
                        /\ (minres.fun <= sol.energy \/ metropolis)
          IN  sol' = IF accept
                     THEN [sol EXCEPT !.x = minres.x, !.energy = minres.fun,
                               !.best = IF minres.fun < sol.best.fun
                                        THEN minres ELSE sol.best,
                               !.nstep = sol.nstep + 1]
                     ELSE [sol EXCEPT !.nstep = sol.nstep + 1]
    /\ UNCHANGED <<nb, data, pc, defined, added, objective, status, optimal,
                   bound, errors, calls>>

\* After niter cycles the call returns; ret.x is the best point stored.
ReturnHopping ==
    /\ status = "hopping"
    /\ sol.nstep = Min(Stmt.niter, MaxNiter)
    /\ status' = "returned"
    /\ pc' = pc + 1
    /\ UNCHANGED <<nb, data, defined, added, objective, sol, optimal, bound,
                   errors, calls>>

InitHopping ==
    /\ nb = "Basin-hopping"
    /\ data = [func |-> "func", x0 |-> x0]
    /\ InitKernel

NextHopping == Define \/ StartHopping \/ HopCycle \/ ReturnHopping

SpecHopping == InitHopping /\ [][NextHopping]_vars

\* C13: run with accept_test = MyBounds2(), every point basinhopping keeps
\* as its current or best solution, the returned ret.x included, lies
\* within xmin <= x <= xmax in every coordinate.
C13_KeptPointsWithinBounds ==
    (nb = "Basin-hopping" /\ status \in {"hopping", "returned"}
        /\ sol.accept_test = "mybounds2") =>
        (MyBounds2(sol.x) /\ MyBounds2(sol.best.x))

=============================================================================
